---- MODULE Spec2Model ----
(***************************************************************************)
(* FQFAgent (src/fqf/agent.py) and FQF (src/fqf/model.py) as a state       *)
(* machine: the training loop run / train_episode / learn / evaluate, the  *)
(* two optimizers, the target synchronisation and the checkpoint.          *)
(*                                                                         *)
(* Network parameters are abstract values 0..NumParamVals-1.  Tensors are  *)
(* kept as terms that record which network, with which parameters, was     *)
(* applied to which input, so that data flow can be compared.  A batch is  *)
(* one transition of the replay memory.  The uniform draw u of             *)
(* np.random.rand() and the epsilons are counted in units of 1/Unit.       *)
(* Rewards and the tensorboard writer do not influence control flow or     *)
(* any state below and are left out.  FQF.load is called, if at all, on    *)
(* the constructed agent before run(), on the checkpoint of an earlier     *)
(* run.  The value u of a draw is forgotten once it has been compared.     *)
(***************************************************************************)
EXTENDS Integers, Sequences, FiniteSets, TLC

\* ------------------------------------------------------------- bounds
MaxEpisodeLen == 2
MaxPeriod == 2
MaxStart == 2
Unit == 2
MemorySize == 2
NumParamVals == 3

\* the step budget of run()
num_steps == 3

\* evaluate(): episodes = 5
EvalEpisodes == 5

ParamVals == 0..(NumParamVals - 1)
NoDraw == -1
NoAction == "none"
NoBatch == [state |-> -1, action |-> NoAction, next_state |-> -1, done |-> FALSE, t |-> 0]

VARIABLES
  \* configuration (FQFAgent.__init__ arguments)
  update_period, target_update_period, start_steps,
  epsilon_train, epsilon_eval, eval_interval,
  \* counters
  steps, learning_steps, episodes,
  \* self.fqf: parameters of dqn_base, fraction_net, quantile_net, target_net
  fqf,
  \* the four files of model_dir
  ckpt,
  \* replay memory
  memory,
  \* training environment and the locals of train_episode
  env, state, next_state, done, action, u,
  \* test environment and the locals of evaluate
  test_env, eval_i, eval_state, eval_done, eval_action,
  \* locals of learn
  batch, hat_taus, bellman,
  \* control position
  pc,
  \* history: what happened in this environment step / learning step / run
  stepOps, learnOps, sync_snapshot, loaded, loaded_target, update_target_calls,
  appends, eval_completed

config == <<update_period, target_update_period, start_steps,
            epsilon_train, epsilon_eval, eval_interval>>
counters == <<steps, learning_steps, episodes>>
trainLocals == <<env, state, next_state, done, action>>
evalLocals == <<test_env, eval_i, eval_state, eval_done, eval_action>>
learnLocals == <<batch, hat_taus, bellman>>
history == <<stepOps, learnOps, sync_snapshot, loaded, loaded_target,
             update_target_calls, appends, eval_completed>>
vars == <<config, counters, fqf, ckpt, memory, trainLocals, u, evalLocals,
          learnLocals, pc, history>>

\* ------------------------------------------------------------- FQF (model.py)

\* faulty variant: the copy goes from the target to the online network
update_target_mut(f) == [f EXCEPT !.quantile_net = f.target_net]

\* update_target: target_net.load_state_dict(quantile_net.state_dict())
update_target(f) == [f EXCEPT !.target_net = f.quantile_net]

\* FQF.__init__: the networks are built, then update_target() is called
FQF_init == update_target([dqn_base |-> 0, fraction_net |-> 0,
                           quantile_net |-> 0, target_net |-> 1])

\* save: the four state dicts are written
save(f) == [dqn_base |-> f.dqn_base, fraction_net |-> f.fraction_net,
            quantile_net |-> f.quantile_net, target_net |-> f.target_net]

\* load: the four state dicts are read back
load(c) == [dqn_base |-> c.dqn_base, fraction_net |-> c.fraction_net,
            quantile_net |-> c.quantile_net, target_net |-> c.target_net]

\* A checkpoint left in model_dir by an earlier run: its online quantile
\* network has moved on from the target it was saved with.
PriorCkpt == [dqn_base |-> 1, fraction_net |-> 1,
              quantile_net |-> 2 % NumParamVals, target_net |-> 1]

\* ------------------------------------------------------------- tensors as terms

DqnBase(p, x) == [dqn_base |-> p, x |-> x]
FractionNet(p, emb) == [fraction_net |-> p, emb |-> emb]
QuantileNet(which, p, emb, levels) == [net |-> which, params |-> p, emb |-> emb, levels |-> levels]
ArgmaxQ(p, emb, fracs) == [quantile_net |-> p, emb |-> emb, fracs |-> fracs]

\* the locals of learn outside learn
NoHatTaus == FractionNet(-1, DqnBase(-1, -1))
NoBellman ==
  [current_sa_quantiles |->
     [quantiles |-> QuantileNet("none", -1, DqnBase(-1, -1), NoHatTaus),
      index |-> NoAction],
   next_hat_taus |-> NoHatTaus,
   next_sa_quantiles |->
     [quantiles |-> QuantileNet("none", -1, DqnBase(-1, -1), NoHatTaus),
      index |-> ArgmaxQ(-1, DqnBase(-1, -1), NoHatTaus)],
   bootstrap |-> FALSE]

\* ------------------------------------------------------------- optimizers

\* RMSprop(self.fqf.fraction_net.parameters())
fraction_optim == {"fraction_net"}
\* faulty variant: the value-function optimizer is given the fraction network too
quantile_optim_mut == {"dqn_base", "fraction_net", "quantile_net"}

\* Adam(dqn_base.parameters() + quantile_net.parameters())
quantile_optim == {"dqn_base", "quantile_net"}

OptimizerStep(p) == (p + 1) % NumParamVals

\* update_params(optim, loss): zero_grad, backward, optim.step()
update_params(optim, f) ==
  [n \in DOMAIN f |-> IF n \in optim THEN OptimizerStep(f[n]) ELSE f[n]]

\* ------------------------------------------------------------- replay memory

MemoryAppend(m, tr) ==
  IF Len(m) < MemorySize THEN Append(m, tr) ELSE Append(Tail(m), tr)

\* ------------------------------------------------------------- environments

\* An environment whose observation is the number of steps taken in the
\* episode; whether a step ends the episode is the environment's choice d, and
\* an episode ends at the latest after MaxEpisodeLen steps.
EnvReset == [obs |-> 0, t |-> 0]
EnvDone(e, d) == d \/ e.t + 1 >= MaxEpisodeLen
EnvStep(e) == [obs |-> e.t + 1, t |-> e.t + 1]

\* ------------------------------------------------------------- agent.py

Init ==
  /\ update_period \in 1..MaxPeriod
  /\ target_update_period \in 1..MaxPeriod
  /\ start_steps \in 0..MaxStart
  /\ epsilon_train \in 0..Unit
  /\ epsilon_eval \in 0..Unit
  /\ eval_interval \in 1..MaxPeriod
  /\ steps = 0 /\ learning_steps = 0 /\ episodes = 0
  /\ fqf = FQF_init
  /\ ckpt = PriorCkpt
  /\ memory = <<>>
  /\ env = EnvReset /\ state = 0 /\ next_state = 0 /\ done = FALSE
  /\ action = NoAction /\ u = NoDraw
  /\ test_env = EnvReset /\ eval_i = 0 /\ eval_state = 0 /\ eval_done = FALSE
  /\ eval_action = NoAction
  /\ batch = NoBatch /\ hat_taus = NoHatTaus /\ bellman = NoBellman
  /\ pc = "constructed"
  /\ stepOps = <<>> /\ learnOps = <<>>
  /\ sync_snapshot = FQF_init.quantile_net
  /\ loaded = FALSE /\ loaded_target = 0
  /\ update_target_calls = 0 /\ appends = 0 /\ eval_completed = 0

\* faulty variant: the warmup is not checked
is_update_mut == steps % update_period = 0

\* is_update
is_update == steps % update_period = 0 /\ steps >= start_steps

\* faulty variant: the warmup is not checked
train_explores_mut(uu) == uu < epsilon_train

\* train_episode: the condition under which explore() is called; uu is what
\* np.random.rand() returns when called, and `or` calls it only after the warmup
train_explores(uu) == steps < start_steps \/ uu < epsilon_train

\* evaluate: the condition under which explore() is called
eval_explores(uu) == uu < epsilon_eval

\* faulty variant: the period is counted from the first learning step
target_update_due_mut(k) == (k - 1) % target_update_period = 0

\* learn: the condition of the target update, on the incremented counter k
target_update_due(k) == k % target_update_period = 0

\* faulty variant: no evaluation during the warmup
eval_due_mut == steps % eval_interval = 0 /\ steps >= start_steps

\* train_episode: the condition of evaluate() and save()
eval_due == steps % eval_interval = 0

\* faulty variant: run() returns as soon as the budget is reached
run_exit_mut == steps >= num_steps

\* run: the exit condition
run_exit == steps > num_steps

\* faulty variant: the target network is evaluated at the next state's hat_taus
next_s_quantiles_mut(f, next_emb, ht, next_ht) ==
  QuantileNet("target_net", f.target_net, next_emb, next_ht)

\* calculate_quantile_loss: the quantile values of the next states
next_s_quantiles(f, next_emb, ht, next_ht) ==
  QuantileNet("target_net", f.target_net, next_emb, ht)

\* calculate_quantile_loss: the next actions
next_actions(f, next_emb, next_fracs) == ArgmaxQ(f.quantile_net, next_emb, next_fracs)

\* calculate_quantile_loss on batch b with the fractions ht proposed for b.state
calculate_quantile_loss(f, b, ht) ==
  LET state_embeddings == DqnBase(f.dqn_base, b.state)
      next_state_embeddings == DqnBase(f.dqn_base, b.next_state)
      next_hat_taus == FractionNet(f.fraction_net, next_state_embeddings)
  IN [current_sa_quantiles |->
        [quantiles |-> QuantileNet("quantile_net", f.quantile_net, state_embeddings, ht),
         index |-> b.action],
      next_hat_taus |-> next_hat_taus,
      next_sa_quantiles |->
        [quantiles |-> next_s_quantiles(f, next_state_embeddings, ht, next_hat_taus),
         index |-> next_actions(f, next_state_embeddings, next_hat_taus)],
      bootstrap |-> ~b.done]

\* FQF.load called on the constructed agent, before run()
Load ==
  /\ pc = "constructed"
  /\ fqf' = load(ckpt)
  /\ loaded' = TRUE
  /\ loaded_target' = ckpt.target_net
  /\ UNCHANGED <<config, counters, ckpt, memory, trainLocals, u, evalLocals,
                 learnLocals, pc, stepOps, learnOps, sync_snapshot,
                 update_target_calls, appends, eval_completed>>

\* run: while True: train_episode(); the head of train_episode
TrainEpisodeStart ==
  /\ pc \in {"constructed", "run"}
  /\ episodes' = episodes + 1
  /\ done' = FALSE
  /\ env' = EnvReset /\ state' = EnvReset.obs
  /\ action' = NoAction
  /\ pc' = "loop"
  /\ UNCHANGED <<config, steps, learning_steps, fqf, ckpt, memory, next_state,
                 u, evalLocals, learnLocals, history>>

\* while not done: choose the action
SelectAction ==
  /\ pc = "loop" /\ ~done
  /\ \E uu \in 0..(Unit - 1) :
       /\ u' = IF steps < start_steps THEN NoDraw ELSE uu
       /\ action' = IF train_explores(uu) THEN "explore" ELSE "exploit"
  /\ pc' = "env_step"
  /\ UNCHANGED <<config, counters, fqf, ckpt, memory, env, state, next_state,
                 done, evalLocals, learnLocals, history>>

\* env.step(action); self.steps += 1
EnvStepAction ==
  /\ pc = "env_step"
  /\ \E d \in BOOLEAN : done' = EnvDone(env, d)
  /\ env' = EnvStep(env)
  /\ next_state' = env'.obs
  /\ steps' = steps + 1
  /\ stepOps' = stepOps \o <<"step", "inc">>
  /\ pc' = "append"
  /\ UNCHANGED <<config, learning_steps, episodes, fqf, ckpt, memory, state,
                 action, u, evalLocals, learnLocals, learnOps, sync_snapshot,
                 loaded, loaded_target, update_target_calls, appends,
                 eval_completed>>

\* self.memory.append(state, action, reward, next_state, done)
MemoryAppendAction ==
  /\ pc = "append"
  /\ memory' = MemoryAppend(memory, [state |-> state, action |-> action,
                                     next_state |-> next_state, done |-> done,
                                     t |-> steps])
  /\ appends' = appends + 1
  /\ u' = NoDraw
  /\ stepOps' = Append(stepOps, "append")
  /\ pc' = "update_check"
  /\ UNCHANGED <<config, counters, fqf, ckpt, trainLocals,
                 evalLocals, learnLocals, learnOps, sync_snapshot, loaded,
                 loaded_target, update_target_calls, eval_completed>>

\* if self.is_update(): self.learn() -- learn up to the target update
LearnBegin ==
  /\ pc = "update_check" /\ is_update
  /\ learning_steps' = learning_steps + 1
  /\ IF target_update_due(learning_steps + 1)
       THEN /\ fqf' = update_target(fqf)
            /\ sync_snapshot' = fqf.quantile_net
            /\ loaded' = FALSE
            /\ update_target_calls' = update_target_calls + 1
            /\ learnOps' = <<"update_target">>
       ELSE /\ learnOps' = <<>>
            /\ UNCHANGED <<fqf, sync_snapshot, loaded, update_target_calls>>
  /\ stepOps' = Append(stepOps, "learn")
  /\ pc' = "sample"
  /\ UNCHANGED <<config, steps, episodes, ckpt, memory, trainLocals, u,
                 evalLocals, learnLocals, loaded_target, appends, eval_completed>>

SkipLearn ==
  /\ pc = "update_check" /\ ~is_update
  /\ pc' = "eval_check"
  /\ UNCHANGED <<config, counters, fqf, ckpt, memory, trainLocals, u,
                 evalLocals, learnLocals, history>>

\* self.memory.sample(self.batch_size)
Sample ==
  /\ pc = "sample"
  /\ \E i \in 1..Len(memory) : batch' = memory[i]
  /\ learnOps' = Append(learnOps, "sample")
  /\ pc' = "forward"
  /\ UNCHANGED <<config, counters, fqf, ckpt, memory, trainLocals, u,
                 evalLocals, hat_taus, bellman, stepOps, sync_snapshot, loaded,
                 loaded_target, update_target_calls, appends, eval_completed>>

\* state_embeddings = dqn_base(states); taus, hat_taus, entropies = fraction_net(...)
Forward ==
  /\ pc = "forward"
  /\ hat_taus' = FractionNet(fqf.fraction_net, DqnBase(fqf.dqn_base, batch.state))
  /\ learnOps' = Append(learnOps, "forward")
  /\ pc' = "losses"
  /\ UNCHANGED <<config, counters, fqf, ckpt, memory, trainLocals, u,
                 evalLocals, batch, bellman, stepOps, sync_snapshot, loaded,
                 loaded_target, update_target_calls, appends, eval_completed>>

\* faulty variant: the quantile loss is computed before the fraction loss
Losses_mut ==
  /\ pc = "losses"
  /\ bellman' = calculate_quantile_loss(fqf, batch, hat_taus)
  /\ learnOps' = learnOps \o <<"quantile_loss", "fraction_loss", "entropy_loss">>
  /\ pc' = "fraction_step"
  /\ UNCHANGED <<config, counters, fqf, ckpt, memory, trainLocals, u,
                 evalLocals, batch, hat_taus, stepOps, sync_snapshot, loaded,
                 loaded_target, update_target_calls, appends, eval_completed>>

\* fraction_loss, entropy_loss and quantile_loss are computed
Losses ==
  /\ pc = "losses"
  /\ bellman' = calculate_quantile_loss(fqf, batch, hat_taus)
  /\ learnOps' = learnOps \o <<"fraction_loss", "entropy_loss", "quantile_loss">>
  /\ pc' = "fraction_step"
  /\ UNCHANGED <<config, counters, fqf, ckpt, memory, trainLocals, u,
                 evalLocals, batch, hat_taus, stepOps, sync_snapshot, loaded,
                 loaded_target, update_target_calls, appends, eval_completed>>

\* update_params(self.fraction_optim, fraction_loss + entropy_loss, True)
FractionStep ==
  /\ pc = "fraction_step"
  /\ fqf' = update_params(fraction_optim, fqf)
  /\ learnOps' = Append(learnOps, "fraction_step")
  /\ pc' = "quantile_step"
  /\ UNCHANGED <<config, counters, ckpt, memory, trainLocals, u, evalLocals,
                 learnLocals, stepOps, sync_snapshot, loaded, loaded_target,
                 update_target_calls, appends, eval_completed>>

\* update_params(self.quantile_optim, quantile_loss + entropy_loss); learn returns
QuantileStep ==
  /\ pc = "quantile_step"
  /\ fqf' = update_params(quantile_optim, fqf)
  /\ learnOps' = Append(learnOps, "quantile_step")
  /\ batch' = NoBatch /\ hat_taus' = NoHatTaus /\ bellman' = NoBellman
  /\ pc' = "eval_check"
  /\ UNCHANGED <<config, counters, ckpt, memory, trainLocals, u, evalLocals,
                 stepOps, sync_snapshot, loaded, loaded_target,
                 update_target_calls, appends, eval_completed>>

\* if self.steps % self.eval_interval == 0: self.evaluate() is entered
EvaluateBegin ==
  /\ pc = "eval_check" /\ eval_due
  /\ eval_i' = 0
  /\ eval_completed' = 0
  /\ stepOps' = Append(stepOps, "evaluate")
  /\ pc' = "eval_reset"
  /\ UNCHANGED <<config, counters, fqf, ckpt, memory, trainLocals, u, test_env,
                 eval_state, eval_done, eval_action, learnLocals, learnOps,
                 sync_snapshot, loaded, loaded_target, update_target_calls,
                 appends>>

SkipEvaluate ==
  /\ pc = "eval_check" /\ ~eval_due
  /\ pc' = "next"
  /\ UNCHANGED <<config, counters, fqf, ckpt, memory, trainLocals, u,
                 evalLocals, learnLocals, history>>

\* for i in range(episodes): state = self.test_env.reset()
EvalEpisodeStart ==
  /\ pc = "eval_reset" /\ eval_i < EvalEpisodes
  /\ test_env' = EnvReset /\ eval_state' = EnvReset.obs
  /\ eval_done' = FALSE
  /\ pc' = "eval_act"
  /\ UNCHANGED <<config, counters, fqf, ckpt, memory, trainLocals, u, eval_i,
                 eval_action, learnLocals, history>>

\* while not done: choose the action
EvalSelectAction ==
  /\ pc = "eval_act"
  /\ \E uu \in 0..(Unit - 1) :
       /\ u' = uu
       /\ eval_action' = IF eval_explores(uu) THEN "explore" ELSE "exploit"
  /\ pc' = "eval_step"
  /\ UNCHANGED <<config, counters, fqf, ckpt, memory, trainLocals, test_env,
                 eval_i, eval_state, eval_done, learnLocals, history>>

\* faulty variant: evaluate steps the training environment
EvalEnvStep_mut ==
  /\ pc = "eval_step"
  /\ \E d \in BOOLEAN : eval_done' = EnvDone(env, d)
  /\ env' = EnvStep(env)
  /\ eval_state' = env'.obs
  /\ u' = NoDraw
  /\ IF eval_done'
       THEN /\ eval_i' = eval_i + 1
            /\ eval_completed' = eval_completed + 1
            /\ pc' = "eval_reset"
       ELSE /\ pc' = "eval_act"
            /\ UNCHANGED <<eval_i, eval_completed>>
  /\ UNCHANGED <<config, counters, fqf, ckpt, memory, test_env, state,
                 next_state, done, action, eval_action, learnLocals, stepOps,
                 learnOps, sync_snapshot, loaded, loaded_target,
                 update_target_calls, appends>>

\* self.test_env.step(action); state = next_state
EvalEnvStep ==
  /\ pc = "eval_step"
  /\ \E d \in BOOLEAN : eval_done' = EnvDone(test_env, d)
  /\ test_env' = EnvStep(test_env)
  /\ eval_state' = test_env'.obs
  /\ u' = NoDraw
  /\ IF eval_done'
       THEN /\ eval_i' = eval_i + 1
            /\ eval_completed' = eval_completed + 1
            /\ pc' = "eval_reset"
       ELSE /\ pc' = "eval_act"
            /\ UNCHANGED <<eval_i, eval_completed>>
  /\ UNCHANGED <<config, counters, fqf, ckpt, memory, trainLocals, eval_action,
                 learnLocals, stepOps, learnOps, sync_snapshot, loaded,
                 loaded_target, update_target_calls, appends>>

\* the episodes are over: mean, std, add_scalar, print; evaluate returns
EvaluateReturn ==
  /\ pc = "eval_reset" /\ ~(eval_i < EvalEpisodes)
  /\ eval_i' = 0 /\ eval_state' = 0 /\ eval_done' = FALSE
  /\ eval_action' = NoAction
  /\ pc' = "save"
  /\ UNCHANGED <<config, counters, fqf, ckpt, memory, trainLocals, u, test_env,
                 learnLocals, history>>

\* self.fqf.save(self.model_dir)
Save ==
  /\ pc = "save"
  /\ ckpt' = save(fqf)
  /\ stepOps' = Append(stepOps, "save")
  /\ pc' = "next"
  /\ UNCHANGED <<config, counters, fqf, memory, trainLocals, u, evalLocals,
                 learnLocals, learnOps, sync_snapshot, loaded, loaded_target,
                 update_target_calls, appends, eval_completed>>

\* state = next_state; back to the loop condition
NextIteration ==
  /\ pc = "next"
  /\ state' = next_state
  /\ stepOps' = <<>>
  /\ pc' = "loop"
  /\ UNCHANGED <<config, counters, fqf, ckpt, memory, env, next_state, done,
                 action, u, evalLocals, learnLocals, learnOps, sync_snapshot,
                 loaded, loaded_target, update_target_calls, appends,
                 eval_completed>>

\* the loop of train_episode is left; logging; train_episode returns
EndEpisode ==
  /\ pc = "loop" /\ done
  /\ pc' = "run_check"
  /\ UNCHANGED <<config, counters, fqf, ckpt, memory, trainLocals, u,
                 evalLocals, learnLocals, history>>

\* run: if self.steps > self.num_steps: break
RunBreak ==
  /\ pc = "run_check" /\ run_exit
  /\ pc' = "returned"
  /\ UNCHANGED <<config, counters, fqf, ckpt, memory, trainLocals, u,
                 evalLocals, learnLocals, history>>

RunContinue ==
  /\ pc = "run_check" /\ ~run_exit
  /\ pc' = "run"
  /\ UNCHANGED <<config, counters, fqf, ckpt, memory, trainLocals, u,
                 evalLocals, learnLocals, history>>

Next ==
  \/ Load \/ TrainEpisodeStart \/ SelectAction \/ EnvStepAction
  \/ MemoryAppendAction \/ LearnBegin \/ SkipLearn \/ Sample \/ Forward
  \/ Losses \/ FractionStep \/ QuantileStep \/ EvaluateBegin \/ SkipEvaluate
  \/ EvalEpisodeStart \/ EvalSelectAction \/ EvalEnvStep \/ EvaluateReturn
  \/ Save \/ NextIteration \/ EndEpisode \/ RunBreak \/ RunContinue

Spec == Init /\ [][Next]_vars

\* The cadence of the loop for every period and warmup length; the epsilons do
\* not influence which operations run or when, and are set to 0 (warmup actions
\* are random, the others greedy).
CadenceInit == Init /\ epsilon_train = 0 /\ epsilon_eval = 0
CadenceSpec == CadenceInit /\ [][Next]_vars

\* The exploration policy for every pair of epsilons, with one cadence that
\* has a warmup, learning steps and evaluations.
PolicyInit ==
  /\ Init
  /\ update_period = 1 /\ target_update_period = 2
  /\ start_steps = 2 /\ eval_interval = 2
PolicySpec == PolicyInit /\ [][Next]_vars

\* The loop under its scheduling: one thread runs it, so a step that can be
\* taken is taken.  Whether run() returns depends on the step budget and the
\* episode lengths only.
LiveInit == PolicyInit /\ epsilon_train = 1 /\ epsilon_eval = 1
LiveSpec == LiveInit /\ [][Next]_vars /\ WF_vars(Next)

\* ------------------------------------------------------------- properties

IsPrefix(a, b) == Len(a) <= Len(b) /\ SubSeq(b, 1, Len(a)) = a
Contains(a, x) == \E i \in 1..Len(a) : a[i] = x
LearnPcs == {"sample", "forward", "losses", "fraction_step", "quantile_step"}
EvalPcs == {"eval_reset", "eval_act", "eval_step"}

\* C1: learning_steps equals the number of step counts s in 1..steps with
\* s % update_period = 0 and s >= start_steps (the step just counted is still
\* to be learned from while the transition is being stored), and an
\* environment step contains a learning step exactly when its own count
\* satisfies that condition.
C1_UpdateCadence ==
  LET due(s) == s % update_period = 0 /\ s >= start_steps
      upto == IF pc \in {"append", "update_check"} THEN steps - 1 ELSE steps
  IN /\ learning_steps = Cardinality({s \in 1..upto : due(s)})
     /\ pc \in LearnPcs => due(steps)
     /\ pc \in {"eval_check", "save", "next"} \cup EvalPcs
          => (Contains(stepOps, "learn") <=> due(steps))

C1_Witness ==
  /\ pc = "next" /\ update_period = 1 /\ start_steps = 2
  /\ steps = 3 /\ learning_steps = 2

\* C2 as stated: the target parameters equal the online quantile-network
\* parameters of the most recent update_target call.
C2_Original == fqf.target_net = sync_snapshot

\* C2 amended: the target parameters equal the online parameters of the most
\* recent update_target call unless FQF.load has run since, and then they are
\* the target parameters read from the checkpoint; right after update_target
\* target and online are identical.
C2_TargetSnapshot ==
  /\ fqf.target_net = IF loaded THEN loaded_target ELSE sync_snapshot
  /\ pc = "sample" /\ learnOps = <<"update_target">>
       => fqf.target_net = fqf.quantile_net

C2_Witness ==
  /\ ~loaded /\ update_target_calls >= 1
  /\ fqf.target_net # fqf.quantile_net
  /\ pc = "next"

\* C3 as stated: in a learning step the fraction optimizer steps before the
\* quantile regression loss is computed.
C3_Original ==
  Contains(learnOps, "quantile_step") =>
    \E i, j \in 1..Len(learnOps) :
      learnOps[i] = "fraction_step" /\ learnOps[j] = "quantile_loss" /\ i < j

\* C3 amended: a learning step runs target sync check, batch sampling,
\* embedding and FractionSet computation, then computes the fraction loss, the
\* entropy loss and the quantile regression loss, and only then steps the
\* fraction optimizer and after it the value-function optimizer; the quantile
\* loss is computed from the fraction parameters of before the fraction step.
C3_LearnOrder ==
  LET order == (IF learning_steps % target_update_period = 0
                  THEN <<"update_target">> ELSE <<>>)
               \o <<"sample", "forward", "fraction_loss", "entropy_loss",
                    "quantile_loss", "fraction_step", "quantile_step">>
  IN /\ learning_steps >= 1 => IsPrefix(learnOps, order)
     /\ learning_steps >= 1 /\ pc \notin LearnPcs => learnOps = order
     /\ pc = "fraction_step" => bellman.next_hat_taus.fraction_net = fqf.fraction_net
     /\ pc = "quantile_step" => Contains(learnOps, "fraction_step")

C3_Witness == pc = "quantile_step" /\ learnOps[1] = "update_target"

\* C4 as stated: the next action is the argmax of calculate_q of the online
\* quantile network on the next-state embedding with the next state's
\* FractionSet, and the bootstrapped quantile values are the target network's
\* output on the next-state embedding at the next state's own hat_taus.
C4_Original ==
  pc = "fraction_step" =>
    LET next_emb == [dqn_base |-> fqf.dqn_base, x |-> batch.next_state]
        next_fracs == [fraction_net |-> fqf.fraction_net, emb |-> next_emb]
    IN /\ bellman.next_sa_quantiles.index =
            [quantile_net |-> fqf.quantile_net, emb |-> next_emb, fracs |-> next_fracs]
       /\ bellman.next_sa_quantiles.quantiles =
            [net |-> "target_net", params |-> fqf.target_net, emb |-> next_emb,
             levels |-> next_fracs]

\* C4 amended: the next action is chosen as stated, and the bootstrapped
\* quantile values are the target network's output on the next-state embedding
\* at the hat_taus proposed for the current (sampled) state.
C4_BellmanTarget ==
  pc = "fraction_step" =>
    LET emb == [dqn_base |-> fqf.dqn_base, x |-> batch.state]
        next_emb == [dqn_base |-> fqf.dqn_base, x |-> batch.next_state]
        fracs == [fraction_net |-> fqf.fraction_net, emb |-> emb]
        next_fracs == [fraction_net |-> fqf.fraction_net, emb |-> next_emb]
    IN /\ bellman.next_sa_quantiles.index =
            [quantile_net |-> fqf.quantile_net, emb |-> next_emb, fracs |-> next_fracs]
       /\ bellman.next_sa_quantiles.quantiles =
            [net |-> "target_net", params |-> fqf.target_net, emb |-> next_emb,
             levels |-> fracs]

C4_Witness ==
  /\ pc = "fraction_step"
  /\ batch.state # batch.next_state
  /\ fqf.target_net # fqf.quantile_net
  /\ batch.t < steps

\* C5: a training action is random exactly when the step count before the
\* step is below start_steps or the draw u is below epsilon_train; an
\* evaluation action is random exactly when u is below epsilon_eval; so warmup
\* actions are random, epsilon 0 gives greedy and epsilon 1 random actions.
C5_EpsilonGreedy ==
  /\ pc = "env_step" =>
       /\ (action = "explore") <=> (steps < start_steps \/ (u # NoDraw /\ u < epsilon_train))
       /\ (action = "exploit") <=> ~(steps < start_steps \/ (u # NoDraw /\ u < epsilon_train))
       /\ steps >= start_steps => u \in 0..(Unit - 1)
       /\ steps < start_steps => action = "explore"
       /\ steps >= start_steps /\ epsilon_train = 0 => action = "exploit"
       /\ epsilon_train = Unit => action = "explore"
  /\ pc = "eval_step" =>
       /\ u \in 0..(Unit - 1)
       /\ (eval_action = "explore") <=> (u < epsilon_eval)
       /\ (eval_action = "exploit") <=> ~(u < epsilon_eval)
       /\ epsilon_eval = 0 => eval_action = "exploit"
       /\ epsilon_eval = Unit => eval_action = "explore"

C5_Witness ==
  /\ pc = "env_step" /\ steps >= start_steps /\ start_steps > 0
  /\ epsilon_train \in 1..(Unit - 1) /\ action = "exploit"

\* C6: the k-th learning step copies the online quantile network into the
\* target exactly when k % target_update_period = 0, as its first operation,
\* and the training loop copies nowhere else.
C6_TargetSync ==
  /\ update_target_calls =
       Cardinality({k \in 1..learning_steps : k % target_update_period = 0})
  /\ learning_steps >= 1 =>
       /\ (learnOps # <<>> /\ learnOps[1] = "update_target")
            <=> (learning_steps % target_update_period = 0)
       /\ \A i \in 2..Len(learnOps) : learnOps[i] # "update_target"
  /\ learning_steps = 0 => learnOps = <<>>

C6_Witness ==
  /\ pc = "sample" /\ target_update_period = 2 /\ learning_steps = 2
  /\ learnOps = <<"update_target">>

\* C7 as stated: run() continues after an episode only while the step count
\* is below the budget (it returns once steps >= num_steps).
C7_Original == pc = "run" => steps < num_steps

\* C7 amended: run() evaluates its exit condition only after a completed
\* episode and returns at the end of the first episode at which the step count
\* exceeds the budget (steps > num_steps); as every episode ends, it returns.
C7_RunTerminates ==
  /\ [](pc = "run_check" => done /\ env.t >= 1)
  /\ [](pc = "run" => steps <= num_steps)
  /\ [](pc = "returned" => steps > num_steps)
  /\ <>(pc = "returned")

C7_Witness == pc = "returned" /\ episodes >= 3

\* C8: evaluate() runs exactly 5 complete episodes on the test environment
\* and leaves the counters, the replay memory, all network parameters and the
\* training environment's episode unchanged.
C8_EvaluateFrame ==
  /\ [][(pc \in EvalPcs \/ pc' \in EvalPcs) =>
          UNCHANGED <<steps, learning_steps, episodes, memory, fqf, env, state,
                      next_state, done, action>>]_vars
  /\ [](pc = "save" => eval_completed = 5 /\ test_env.t >= 1)
  /\ [](pc \in EvalPcs => eval_completed = eval_i /\ eval_i <= 5)

C8_Witness ==
  /\ pc = "save" /\ ~done /\ learning_steps >= 1 /\ eval_completed = 5

\* C9: the fraction optimizer and the value-function optimizer own disjoint
\* parameter sets, neither holds the target network, and a step of either
\* changes no parameters but its own.
C9_OptimizerFrame ==
  /\ [][/\ pc = "fraction_step" =>
             /\ fqf'.dqn_base = fqf.dqn_base
             /\ fqf'.quantile_net = fqf.quantile_net
             /\ fqf'.target_net = fqf.target_net
        /\ pc = "quantile_step" =>
             /\ fqf'.fraction_net = fqf.fraction_net
             /\ fqf'.target_net = fqf.target_net]_vars
  /\ [](fraction_optim \cap quantile_optim = {})
  /\ []("target_net" \notin fraction_optim \cup quantile_optim)

C9_Witness ==
  /\ pc = "eval_check" /\ Contains(learnOps, "quantile_step")
  /\ Contains(stepOps, "learn")
  /\ fqf.target_net # fqf.quantile_net
  /\ learning_steps >= 2

\* C10: an environment step acts, increments the step counter, appends the
\* transition, learns if due, and - exactly when steps % eval_interval = 0 -
\* evaluates and then saves; one transition is appended per step, a sampled
\* batch comes from a memory holding the step's transition, and the checkpoint
\* holds the parameters of after the step's learning update.
C10_StepOrder ==
  LET expected == <<"step", "inc", "append">>
                  \o (IF steps % update_period = 0 /\ steps >= start_steps
                        THEN <<"learn">> ELSE <<>>)
                  \o (IF steps % eval_interval = 0
                        THEN <<"evaluate", "save">> ELSE <<>>)
  IN /\ IsPrefix(stepOps, expected)
     /\ pc = "next" => stepOps = expected
     /\ pc = "append" => stepOps = <<"step", "inc">>
     /\ pc = "update_check" => stepOps = <<"step", "inc", "append">>
     /\ appends = IF pc = "append" THEN steps - 1 ELSE steps
     /\ pc \in LearnPcs \ {"sample"} =>
          /\ memory[Len(memory)].t = steps
          /\ \E i \in 1..Len(memory) : batch = memory[i]
     /\ pc = "next" /\ steps % eval_interval = 0 => ckpt = fqf

C10_Witness ==
  /\ pc = "next" /\ steps < start_steps
  /\ stepOps = <<"step", "inc", "append", "evaluate", "save">>
====
